---- MODULE Spec2Model ----
(***************************************************************************)
(* Bentley-Ottmann sweep of bentley_ottmann_api.bentley_ottmann: the event *)
(* queue (PriorityQueue over heapq), the status structure (AVLTree keyed   *)
(* by Segment, compared through Segment.value) and the orchestrator        *)
(* (BentleyOttmann).  Python numbers are modelled by exact rationals       *)
(* <<numerator, denominator>> in lowest terms with a positive denominator. *)
(* Objects with identity are modelled by indices: a Segment is its index   *)
(* in the list built by find_intersections(lines), an Event carries an id, *)
(* a tree Node is an index into the arena `node`; 0 stands for None.       *)
(***************************************************************************)
EXTENDS Integers, Sequences, FiniteSets, TLC

\* Bounds of the input space: coordinates 0..MaxX by 0..MaxY, at most MaxSegs
\* lines given left point first or at most MaxRaw lines given in any form.
MaxX == 2
MaxY == 1
MaxSegs == 3
MaxRaw == 2
\* Bound of the number of loop iterations of one sweep that the model follows.
MaxEvents == 24
\* Bounds of the calls made on a PriorityQueue on its own: at most
\* MaxQueueEvents Event objects are created, at x in 0..MaxQueueX.
MaxQueueEvents == 4
MaxQueueX == 1
\* Bounds of the calls made on an AVLTree on its own: MaxKeys key objects and
\* at most MaxTreeCalls calls of insert and remove_key.
MaxKeys == 5
MaxTreeCalls == 7

\* Bounds of the calls made on a Segment on its own: its points have x in
\* 0..MaxValueX and y in 0..MaxValueY, and at most MaxValueCalls calls of
\* calculate_value are made, for sweep positions 0..MaxValueX.
MaxValueX == 2
MaxValueY == 3
MaxValueCalls == 2

\* Bounds of the calls made on one board: at most MaxBoardLines lines are added
\* to it and find_intersection_for_board is called at most MaxBoardCalls times.
MaxBoardLines == 3
MaxBoardCalls == 3

None == 0

(***************************************************************************)
(* Exact arithmetic standing for Python int/float arithmetic.              *)
(***************************************************************************)
Abs(n) == IF n < 0 THEN -n ELSE n

RECURSIVE GCD(_, _)
GCD(a, b) == IF b = 0 THEN a ELSE GCD(b, a % b)

Rat(n, d) ==
    LET g == GCD(Abs(n), Abs(d))
        s == IF d < 0 THEN -1 ELSE 1
    IN  <<(s * n) \div g, (s * d) \div g>>

FromInt(n) == <<n, 1>>
RAdd(a, b) == Rat(a[1] * b[2] + b[1] * a[2], a[2] * b[2])
RSub(a, b) == Rat(a[1] * b[2] - b[1] * a[2], a[2] * b[2])
RMul(a, b) == Rat(a[1] * b[1], a[2] * b[2])
RDiv(a, b) == Rat(a[1] * b[2], a[2] * b[1])
RLt(a, b) == a[1] * b[2] < b[1] * a[2]
RLe(a, b) == a[1] * b[2] <= b[1] * a[2]
RZero == FromInt(0)
ROne == FromInt(1)

\* A local variable of the code: F applied to the value of v, which is
\* computed once however often F uses it.
Let(v, F(_)) == CHOOSE y \in {F(x) : x \in {v}} : TRUE

(***************************************************************************)
(* geometry.py                                                             *)
(***************************************************************************)
\* Point(coordinate_x, coordinate_y): a pair of rationals.
Point(x, y) == <<x, y>>

\* the points in the order they were given, without the comparison of the x
get_points_as_given(point_x, point_y) == <<point_x, point_y>>

\* Segment.get_first_and_second_point
get_first_and_second_point(point_x, point_y) ==
    IF RLe(point_x[1], point_y[1]) THEN <<point_x, point_y>> ELSE <<point_y, point_x>>

\* Segment.calculate_value: the new value of segment seg at sweep position v;
\* the ZeroDivisionError of a vertical (or zero-length) segment is caught and gives 0.
calculate_value(seg, v) ==
    LET x1 == seg.first_point[1]
        y1 == seg.first_point[2]
        x2 == seg.second_point[1]
        y2 == seg.second_point[2]
    IN  IF RSub(x2, x1) = RZero
        THEN RZero
        ELSE RAdd(y1, RMul(RDiv(RSub(y2, y1), RSub(x2, x1)), RSub(v, x1)))

\* Segment.__init__
Segment(point_x, point_y) ==
    LET fs == get_first_and_second_point(point_x, point_y)
        s0 == [first_point |-> fs[1], second_point |-> fs[2], value |-> RZero]
    IN  [s0 EXCEPT !.value = calculate_value(s0, fs[1][1])]

\* Segment.__lt__ on the segments a and b of the list segs
SegLt(segs, a, b) == RLt(segs[b].value, segs[a].value)

\* Segment.__eq__
SegEq(segs, a, b) == segs[a].value = segs[b].value

\* a > b for Segments: no __gt__ is defined, Python uses the reflected b.__lt__(a)
SegGt(segs, a, b) == SegLt(segs, b, a)

\* Event.__init__: value is point.coordinate_x; id stands for the object's identity
Event(point, segs, type_, id) ==
    [point |-> point, segments |-> segs, type |-> type_, value |-> point[1], id |-> id]

\* Event.__lt__
EventLt(a, b) == RLt(a.value, b.value)

(***************************************************************************)
(* data_structures.py: PriorityQueue over heapq. Positions are 0-based as  *)
(* in Python; At(h, i) is h[i].                                            *)
(***************************************************************************)
At(h, i) == h[i + 1]
Put(h, i, x) == [h EXCEPT ![i + 1] = x]

\* heapq._siftdown(heap, startpos, pos) with newitem = the item being placed
RECURSIVE siftdown_loop(_, _, _, _)
siftdown_loop(heap, startpos, pos, newitem) ==
    IF pos > startpos
    THEN LET parentpos == (pos - 1) \div 2
             parent == At(heap, parentpos)
         IN  IF EventLt(newitem, parent)
             THEN siftdown_loop(Put(heap, pos, parent), startpos, parentpos, newitem)
             ELSE Put(heap, pos, newitem)
    ELSE Put(heap, pos, newitem)

\* the item at pos left where it is, not moved towards the root
siftdown_skipped(heap, startpos, pos) == heap

siftdown(heap, startpos, pos) == siftdown_loop(heap, startpos, pos, At(heap, pos))

\* heapq._siftup(heap, pos): bubble the smaller child up to a leaf, then sift down
RECURSIVE siftup_loop(_, _, _, _)
siftup_loop(heap, startpos, pos, newitem) ==
    LET endpos == Len(heap)
        childpos == 2 * pos + 1
        rightpos == childpos + 1
        c == IF rightpos < endpos /\ ~EventLt(At(heap, childpos), At(heap, rightpos))
             THEN rightpos ELSE childpos
    IN  IF childpos < endpos
        THEN siftup_loop(Put(heap, pos, At(heap, c)), startpos, c, newitem)
        ELSE siftdown(Put(heap, pos, newitem), startpos, pos)

siftup(heap, pos) == siftup_loop(heap, pos, pos, At(heap, pos))

\* heapq.heapify: for i in reversed(range(n // 2)): _siftup(x, i)
RECURSIVE heapify_from(_, _)
heapify_from(heap, i) ==
    IF i < 0 THEN heap ELSE heapify_from(siftup(heap, i), i - 1)

heapify(heap) == heapify_from(heap, (Len(heap) \div 2) - 1)

\* PriorityQueue.enqueue: heappush
enqueue(heap, data) == siftdown(Append(heap, data), 0, Len(heap))

\* PriorityQueue.dequeue on a non-empty queue: heappop; <<item, heap afterwards>>
dequeue(heap) ==
    LET lastelt == heap[Len(heap)]
        rest == SubSeq(heap, 1, Len(heap) - 1)
    IN  IF rest # <<>>
        THEN <<rest[1], siftup(Put(rest, 0, lastelt), 0)>>
        ELSE <<lastelt, rest>>

\* PriorityQueue.dequeue on an empty queue: heappop raises IndexError, which is
\* caught and replaced by Exception("Queue is empty."); the class of the
\* exception that leaves dequeue
dequeue_empty_raises == "Exception"

\* every element whose fields other than the identity equal those of
\* heap[idx] deleted, not only heap[idx]
DelAt_by_fields(heap, idx) ==
    SelectSeq(heap, LAMBDA e : [e EXCEPT !.id = 0] # [heap[idx + 1] EXCEPT !.id = 0])

\* del self.heapq[idx]
DelAt(heap, idx) == SubSeq(heap, 1, idx) \o SubSeq(heap, idx + 2, Len(heap))

\* PriorityQueue.remove_by_object_id: the first element with that identity is
\* deleted and the list heapified, then the list is heapified once more.
remove_by_object_id(heap, id) ==
    LET hits == {i \in 0..(Len(heap) - 1) : At(heap, i).id = id}
    IN  IF hits = {}
        THEN heapify(heap)
        ELSE LET idx == CHOOSE i \in hits : \A j \in hits : i <= j
             IN  heapify(heapify(DelAt(heap, idx)))

(***************************************************************************)
(* data_structures.py: Node, BaseTree, AVLRebalanceMixin, AVLTree.         *)
(* A tree is [root_node, node, nodes, rebalances, raised]: node is the     *)
(* arena of live Node objects (index -> fields), raised records that the   *)
(* code dereferenced None (AttributeError).                                *)
(***************************************************************************)
\* Node.__init__
Node(key) == [key |-> key, parent |-> None, left_child |-> None, right_child |-> None, height |-> 0]

\* BaseTree.__init__ without initial data
BaseTree == [root_node |-> None, node |-> <<>>, nodes |-> 0, rebalances |-> 0, raised |-> FALSE]

\* the index a newly created Node object gets in the arena
NewNode(nd) == CHOOSE i \in 1..(Cardinality(DOMAIN nd) + 1) :
                  i \notin DOMAIN nd /\ \A j \in 1..(i - 1) : j \in DOMAIN nd

\* the arena after the garbage collection of node n (del node)
Dispose(nd, n) == [i \in (DOMAIN nd) \ {n} |-> nd[i]]

Raise(T) == [T EXCEPT !.raised = TRUE]

\* Node.is_leaf
is_leaf(nd, n) == nd[n].height = 0

\* the height used by Node.balance for a child (-1 for an absent child)
get_height_for_child(nd, child) == IF child # None THEN nd[child].height ELSE -1

Max(a, b) == IF a >= b THEN a ELSE b

\* Node.get_max_children_height
get_max_children_height(nd, n) ==
    LET l == nd[n].left_child
        r == nd[n].right_child
    IN  IF l # None /\ r # None THEN Max(nd[l].height, nd[r].height)
        ELSE IF l # None THEN nd[l].height
        ELSE IF r # None THEN nd[r].height
        ELSE -1

\* Node.balance
balance(nd, n) ==
    get_height_for_child(nd, nd[n].left_child) - get_height_for_child(nd, nd[n].right_child)

\* `if child: child.parent = p`
SetParent(nd, child, p) == IF child # None THEN [nd EXCEPT ![child].parent = p] ELSE nd

\* AVLTree.recompute_heights
RECURSIVE recompute_heights(_, _)
recompute_heights(nd, start_node) ==
    IF start_node = None
    THEN nd
    ELSE LET old_height == nd[start_node].height
             h == IF nd[start_node].right_child # None \/ nd[start_node].left_child # None
                  THEN get_max_children_height(nd, start_node) + 1
                  ELSE 0
             nd1 == [nd EXCEPT ![start_node].height = h]
         IN  IF h # old_height
             THEN recompute_heights(nd1, nd[start_node].parent)
             ELSE nd1

\* AVLRebalanceMixin._set_new_child
set_new_child(T, initial_parent, initial_node, new_node) ==
    IF initial_parent = None
    THEN [T EXCEPT !.root_node = new_node, !.node[new_node].parent = None]
    ELSE LET nd1 == IF T.node[initial_parent].right_child = initial_node
                    THEN [T.node EXCEPT ![initial_parent].right_child = new_node]
                    ELSE [T.node EXCEPT ![initial_parent].left_child = new_node]
         IN  [T EXCEPT !.node = [nd1 EXCEPT ![new_node].parent = initial_parent]]

\* AVLRebalanceMixin.rebalance_case_rrc
rebalance_case_rrc(T, initial_node, initial_parent) ==
    LET nd0 == T.node
        right == nd0[initial_node].right_child
        nd1 == [nd0 EXCEPT ![initial_node].right_child = nd0[right].left_child]
        nd2 == SetParent(nd1, nd1[initial_node].right_child, initial_node)
        nd3 == [nd2 EXCEPT ![right].left_child = initial_node,
                           ![initial_node].parent = right]
        T4 == set_new_child([T EXCEPT !.node = nd3], initial_parent, initial_node, right)
        nd5 == recompute_heights(T4.node, initial_node)
    IN  [T4 EXCEPT !.node = recompute_heights(nd5, nd5[right].parent)]

\* AVLRebalanceMixin.rebalance_case_rlc
rebalance_case_rlc(T, initial_node, initial_parent) ==
    LET nd0 == T.node
        right == nd0[initial_node].right_child
        left == nd0[right].left_child
        nd1 == [nd0 EXCEPT ![right].left_child = nd0[left].right_child]
        nd2 == SetParent(nd1, nd1[right].left_child, right)
        nd3 == [nd2 EXCEPT ![initial_node].right_child = nd2[left].left_child]
        nd4 == SetParent(nd3, nd3[initial_node].right_child, initial_node)
        nd5 == [nd4 EXCEPT ![left].right_child = right,
                           ![right].parent = left,
                           ![left].left_child = initial_node,
                           ![initial_node].parent = left]
        T6 == set_new_child([T EXCEPT !.node = nd5], initial_parent, initial_node, left)
        nd7 == recompute_heights(T6.node, initial_node)
    IN  [T6 EXCEPT !.node = recompute_heights(nd7, right)]

\* AVLRebalanceMixin.rabalance_case_llc
rabalance_case_llc(T, initial_node, initial_parent) ==
    LET nd0 == T.node
        left == nd0[initial_node].left_child
        nd1 == [nd0 EXCEPT ![initial_node].left_child = nd0[left].right_child]
        nd2 == SetParent(nd1, nd1[initial_node].left_child, initial_node)
        nd3 == [nd2 EXCEPT ![left].right_child = initial_node,
                           ![initial_node].parent = left]
        T4 == set_new_child([T EXCEPT !.node = nd3], initial_parent, initial_node, left)
        nd5 == recompute_heights(T4.node, initial_node)
    IN  [T4 EXCEPT !.node = recompute_heights(nd5, nd5[left].parent)]

\* AVLRebalanceMixin.rabalance_case_lrc
rabalance_case_lrc(T, initial_node, initial_parent) ==
    LET nd0 == T.node
        left == nd0[initial_node].left_child
        right == nd0[left].right_child
        nd1 == [nd0 EXCEPT ![initial_node].left_child = nd0[right].right_child]
        nd2 == SetParent(nd1, nd1[initial_node].left_child, initial_node)
        nd3 == [nd2 EXCEPT ![left].right_child = nd2[right].left_child]
        nd4 == SetParent(nd3, nd3[left].right_child, left)
        nd5 == [nd4 EXCEPT ![right].left_child = left,
                           ![left].parent = right,
                           ![right].right_child = initial_node,
                           ![initial_node].parent = right]
        T6 == set_new_child([T EXCEPT !.node = nd5], initial_parent, initial_node, right)
        nd7 == recompute_heights(T6.node, initial_node)
    IN  [T6 EXCEPT !.node = recompute_heights(nd7, left)]

\* no rotation made: the tree is left as it was found
rebalance_skipped(T, n) == T

\* AVLRebalanceMixin.rebalance; node.left_child.balance() raises when the
\* node has no left child
rebalance(T, n) ==
    LET T1 == [T EXCEPT !.rebalances = @ + 1]
        nd == T.node
        initial_parent == nd[n].parent
    IN  IF balance(nd, n) = -2
        THEN IF balance(nd, nd[n].right_child) <= 0
             THEN rebalance_case_rrc(T1, n, initial_parent)
             ELSE rebalance_case_rlc(T1, n, initial_parent)
        ELSE IF nd[n].left_child = None
             THEN Raise(T1)
             ELSE IF balance(nd, nd[n].left_child) >= 0
                  THEN rabalance_case_llc(T1, n, initial_parent)
                  ELSE rabalance_case_lrc(T1, n, initial_parent)

\* AVLTree.find_in_subtree over keys compared through the segments' values
RECURSIVE find_in_subtree(_, _, _, _)
find_in_subtree(T, segs, n, key) ==
    IF n = None THEN None
    ELSE IF SegLt(segs, key, T.node[n].key)
         THEN find_in_subtree(T, segs, T.node[n].left_child, key)
         ELSE IF SegGt(segs, key, T.node[n].key)
              THEN find_in_subtree(T, segs, T.node[n].right_child, key)
              ELSE n

\* AVLTree.find
find(T, segs, key) == find_in_subtree(T, segs, T.root_node, key)

\* get_one_node of AVLTree.insert_child: heights are refreshed from parent_node
\* upwards and the first unbalanced node is returned (None when there is none);
\* the result is <<arena, node>>
RECURSIVE get_one_node_loop(_, _)
get_one_node_loop(nd, n) ==
    IF n = None
    THEN <<nd, None>>
    ELSE LET nd1 == [nd EXCEPT ![n].height = get_max_children_height(nd, n) + 1]
         IN  IF balance(nd1, n) \notin {-1, 0, 1}
             THEN <<nd1, n>>
             ELSE get_one_node_loop(nd1, nd1[n].parent)

get_one_node(nd, parent_node) ==
    IF nd[parent_node].height = 0 THEN get_one_node_loop(nd, parent_node) ELSE <<nd, None>>

\* AVLTree.insert_child
RECURSIVE insert_child(_, _, _, _)
insert_child(T, segs, parent_node, child_node) ==
    LET nd == T.node
        goLeft == SegLt(segs, nd[child_node].key, nd[parent_node].key)
        next == IF goLeft THEN nd[parent_node].left_child ELSE nd[parent_node].right_child
    IN  IF next # None
        THEN insert_child(T, segs, next, child_node)
        ELSE LET nd1 == IF goLeft
                        THEN [nd EXCEPT ![parent_node].left_child = child_node,
                                        ![child_node].parent = parent_node]
                        ELSE [nd EXCEPT ![parent_node].right_child = child_node,
                                        ![child_node].parent = parent_node]
             IN  Let(get_one_node(nd1, parent_node),
                     LAMBDA g : IF g[2] # None
                                THEN rebalance([T EXCEPT !.node = g[1]], g[2])
                                ELSE [T EXCEPT !.node = g[1]])

\* AVLTree.insert without the `if self.find(key=key) is None` test
insert_unguarded(T, segs, key) ==
    LET new_node == NewNode(T.node)
        withNew == [i \in (DOMAIN T.node) \cup {new_node} |->
                        IF i = new_node THEN Node(key) ELSE T.node[i]]
    IN  IF T.root_node = None
        THEN [T EXCEPT !.root_node = new_node, !.node = withNew]
        ELSE insert_child([T EXCEPT !.nodes = @ + 1, !.node = withNew],
                          segs, T.root_node, new_node)

\* AVLTree.insert
insert(T, segs, key) ==
    LET new_node == NewNode(T.node)
        withNew == [i \in (DOMAIN T.node) \cup {new_node} |->
                        IF i = new_node THEN Node(key) ELSE T.node[i]]
    IN  IF T.root_node = None
        THEN [T EXCEPT !.root_node = new_node, !.node = withNew]
        ELSE IF find(T, segs, key) = None
             THEN insert_child([T EXCEPT !.nodes = @ + 1, !.node = withNew],
                               segs, T.root_node, new_node)
             ELSE T

\* AVLTree.rebalance_all_nodes
RECURSIVE rebalance_all_nodes(_, _)
rebalance_all_nodes(T, n) ==
    IF n = None \/ T.raised
    THEN T
    ELSE Let(IF balance(T.node, n) \notin {-1, 0, 1} THEN rebalance(T, n) ELSE T,
             LAMBDA T1 : IF T1.raised THEN T1 ELSE rebalance_all_nodes(T1, T1.node[n].parent))

\* AVLTree.set_value_for_parent_children
set_value_for_parent_children(nd, parent, n, value) ==
    IF nd[parent].left_child = n
    THEN [nd EXCEPT ![parent].left_child = value]
    ELSE [nd EXCEPT ![parent].right_child = value]

\* AVLTree.remove_leaf
remove_leaf(T, n) ==
    LET parent == T.node[n].parent
    IN  Let(IF parent # None
            THEN [T EXCEPT !.node = recompute_heights(
                      set_value_for_parent_children(T.node, parent, n, None), parent)]
            ELSE [T EXCEPT !.root_node = None],
            LAMBDA T1 : rebalance_all_nodes([T1 EXCEPT !.node = Dispose(T1.node, n)], parent))

\* AVLTree.remove_branch; node.right_child.parent = parent and
\* self.root_node.parent = None raise when the node has no child at all
remove_branch(T, n) ==
    LET nd == T.node
        parent == nd[n].parent
        left_child == nd[n].left_child
        right_child == nd[n].right_child
    IN  IF left_child = None /\ right_child = None
        THEN Raise(T)
        ELSE IF parent # None
             THEN LET nd1 == set_value_for_parent_children(nd, parent, n,
                                 IF right_child # None THEN right_child ELSE left_child)
                      nd2 == IF left_child # None
                             THEN [nd1 EXCEPT ![left_child].parent = parent]
                             ELSE [nd1 EXCEPT ![right_child].parent = parent]
                      nd3 == recompute_heights(nd2, parent)
                  IN  rebalance_all_nodes([T EXCEPT !.node = Dispose(nd3, n)], parent)
             ELSE LET root == IF left_child # None THEN left_child ELSE right_child
                  IN  [T EXCEPT !.root_node = root,
                                !.node = Dispose([nd EXCEPT ![root].parent = None], n)]

\* AVLTree.find_smallest
RECURSIVE find_smallest(_, _)
find_smallest(nd, n) ==
    IF nd[n].left_child # None THEN find_smallest(nd, nd[n].left_child) ELSE n

\* the heights of the two nodes left as they are
swap_heights_skipped(nd, first_node, second_node) == nd

\* first_node.height, second_node.height = second_node.height, first_node.height
\* of AVLTree.swap_nodes
swap_heights(nd, first_node, second_node) ==
    [nd EXCEPT ![first_node].height = nd[second_node].height,
               ![second_node].height = nd[first_node].height]

\* AVLTree.swap_nodes (first_node has two children, second_node is the
\* leftmost node of its right subtree)
swap_nodes(T, first_node, second_node) ==
    LET nd == T.node
        first_right_child == nd[first_node].right_child
        first_left_child == nd[first_node].left_child
        first_parent == nd[first_node].parent
        second_right_child == nd[second_node].right_child
        second_left_child == nd[second_node].left_child
        second_parent == nd[second_node].parent
        nd1 == swap_heights(nd, first_node, second_node)
        nd2 == IF first_parent # None
               THEN [set_value_for_parent_children(nd1, first_parent, first_node, second_node)
                        EXCEPT ![second_node].parent = first_parent]
               ELSE [nd1 EXCEPT ![second_node].parent = None]
        root == IF first_parent # None THEN T.root_node ELSE second_node
        nd3 == [nd2 EXCEPT ![second_node].left_child = first_left_child,
                           ![first_left_child].parent = second_node,
                           ![first_node].left_child = second_left_child,
                           ![first_node].right_child = second_right_child]
        nd4 == SetParent(nd3, second_right_child, first_node)
        nd5 == IF second_parent # first_node
               THEN [nd4 EXCEPT ![second_node].right_child = first_right_child,
                                ![first_right_child].parent = second_node,
                                ![second_parent].left_child = first_node,
                                ![first_node].parent = second_parent]
               ELSE [nd4 EXCEPT ![second_node].right_child = first_node,
                                ![first_node].parent = second_node]
    IN  [T EXCEPT !.root_node = root, !.node = nd5]

\* AVLTree.swap_with_successor_and_remove; find_smallest(None) raises
swap_with_successor_and_remove(T, n) ==
    IF T.node[n].right_child = None \/ T.node[n].left_child = None
    THEN Raise(T)
    ELSE Let(swap_nodes(T, n, find_smallest(T.node, T.node[n].right_child)),
             LAMBDA T1 : IF is_leaf(T1.node, n) THEN remove_leaf(T1, n) ELSE remove_branch(T1, n))

\* AVLTree.remove_node
remove_node(T, n) ==
    IF n = None
    THEN T
    ELSE LET T1 == [T EXCEPT !.nodes = @ - 1]
         IN  IF is_leaf(T.node, n)
             THEN remove_leaf(T1, n)
             ELSE IF (T.node[n].left_child # None) # (T.node[n].right_child # None)
                  THEN remove_branch(T1, n)
                  ELSE swap_with_successor_and_remove(T1, n)

\* AVLTree.remove_key
remove_key(T, segs, key) == Let(find(T, segs, key), LAMBDA n : remove_node(T, n))

\* the loops of AVLTree.get_left: up from initial_node to the first parent
\* that has it as right child, and down to the last right child
RECURSIVE get_left_up(_, _)
get_left_up(nd, initial_node) ==
    IF nd[initial_node].parent = None
    THEN None
    ELSE IF nd[nd[initial_node].parent].right_child = initial_node
         THEN nd[initial_node].parent
         ELSE get_left_up(nd, nd[initial_node].parent)

RECURSIVE get_left_down(_, _)
get_left_down(nd, initial_node) ==
    IF nd[initial_node].right_child = None
    THEN initial_node
    ELSE get_left_down(nd, nd[initial_node].right_child)

\* AVLTree.get_left
get_left(nd, node) ==
    IF node = None
    THEN None
    ELSE IF nd[node].left_child = None
         THEN get_left_up(nd, node)
         ELSE get_left_down(nd, nd[node].left_child)

\* the loops of AVLTree.get_right: up from initial_node to the first parent
\* whose left child is node (the argument of get_right), and down to the
\* last left child
RECURSIVE get_right_up(_, _, _)
get_right_up(nd, node, initial_node) ==
    IF nd[initial_node].parent = None
    THEN None
    ELSE IF nd[nd[initial_node].parent].left_child = node
         THEN nd[initial_node].parent
         ELSE get_right_up(nd, node, nd[initial_node].parent)

RECURSIVE get_right_down(_, _)
get_right_down(nd, initial_node) ==
    IF nd[initial_node].left_child = None
    THEN initial_node
    ELSE get_right_down(nd, nd[initial_node].left_child)

\* AVLTree.get_right
get_right(nd, node) ==
    IF node = None
    THEN None
    ELSE IF nd[node].right_child = None
         THEN get_right_up(nd, node, node)
         ELSE get_right_down(nd, nd[node].right_child)

\* AVLTree.inorder with node_in_output: the nodes of the subtree of n in in-order
RECURSIVE inorder_nodes(_, _)
inorder_nodes(nd, n) ==
    IF n = None
    THEN <<>>
    ELSE inorder_nodes(nd, nd[n].left_child) \o <<n>> \o inorder_nodes(nd, nd[n].right_child)

\* AVLTree.inorder: the keys of the subtree of n in in-order
RECURSIVE inorder(_, _)
inorder(nd, n) ==
    IF n = None
    THEN <<>>
    ELSE inorder(nd, nd[n].left_child) \o <<nd[n].key>> \o inorder(nd, nd[n].right_child)

\* bisect.bisect_left(a, x) with Segment.__lt__
RECURSIVE bisect_left(_, _, _, _, _)
bisect_left(segs, a, x, lo, hi) ==
    IF lo < hi
    THEN LET mid == (lo + hi) \div 2
         IN  IF SegLt(segs, At(a, mid), x)
             THEN bisect_left(segs, a, x, mid + 1, hi)
             ELSE bisect_left(segs, a, x, lo, mid)
    ELSE lo

\* bisect.bisect_right(a, x) with Segment.__lt__
RECURSIVE bisect_right(_, _, _, _, _)
bisect_right(segs, a, x, lo, hi) ==
    IF lo < hi
    THEN LET mid == (lo + hi) \div 2
         IN  IF SegLt(segs, x, At(a, mid))
             THEN bisect_right(segs, a, x, lo, mid)
             ELSE bisect_right(segs, a, x, mid + 1, hi)
    ELSE lo

\* AVLTree.lower
lower(T, segs, key) ==
    IF T.root_node = None
    THEN None
    ELSE LET elements == inorder(T.node, T.root_node)
             index == bisect_left(segs, elements, key, 0, Len(elements))
         IN  IF index # 0 THEN At(elements, index - 1) ELSE None

\* AVLTree.higher
higher(T, segs, key) ==
    IF T.root_node = None
    THEN None
    ELSE LET elements == inorder(T.node, T.root_node)
             index == bisect_right(segs, elements, key, 0, Len(elements))
         IN  IF index > Len(elements) - 1 THEN None ELSE At(elements, index)

(***************************************************************************)
(* algorithm.py: BentleyOttmann.  A sweep state is                         *)
(* [segments, heapq, tree, output, next_id]: the Segment objects (their    *)
(* value field is mutable), priority_queue.heapq, tree_set, output and the *)
(* identity the next created Event gets.                                   *)
(***************************************************************************)
\* BentleyOttmann.get_priority_queue_with_data, segments i..Len(segs)
RECURSIVE get_priority_queue_with_data(_, _, _)
get_priority_queue_with_data(segs, i, queue) ==
    IF i > Len(segs)
    THEN queue
    ELSE LET q1 == enqueue(queue, Event(segs[i].first_point, <<i>>, "POINT_LEFT", 2 * i - 1))
             q2 == enqueue(q1, Event(segs[i].second_point, <<i>>, "POINT_RIGHT", 2 * i))
         IN  get_priority_queue_with_data(segs, i + 1, q2)

\* BentleyOttmann.__init__
BentleyOttmann(segs) ==
    [segments |-> segs,
     heapq |-> get_priority_queue_with_data(segs, 1, <<>>),
     tree |-> BaseTree,
     output |-> {},
     next_id |-> 2 * Len(segs) + 1]

\* BentleyOttmann.recalculate: calculate_value for the keys of the tree, in in-order
RECURSIVE recalculate_loop(_, _, _, _)
recalculate_loop(segs, keys, i, value) ==
    IF i > Len(keys)
    THEN segs
    ELSE recalculate_loop(
             [segs EXCEPT ![keys[i]].value = calculate_value(segs[keys[i]], value)],
             keys, i + 1, value)

recalculate(S, value) ==
    [S EXCEPT !.segments =
        recalculate_loop(S.segments, inorder(S.tree.node, S.tree.root_node), 1, value)]

\* a1 + t * a2: the interpolation with the subtraction of a1 forgotten
point_at_no_offset(a1, a2, t) == RAdd(a1, RMul(t, a2))

\* x1 + t * (x2 - x1) and y1 + t * (y2 - y1) of BentleyOttmann.intersection
point_at(a1, a2, t) == RAdd(a1, RMul(t, RSub(a2, a1)))

\* the range test with the test of u forgotten
param_in_range_t_only(t, u) == RLe(RZero, t) /\ RLe(t, ROne)

\* t >= 0 and t <= 1 and u >= 0 and u <= 1 of BentleyOttmann.intersection
param_in_range(t, u) == RLe(RZero, t) /\ RLe(t, ROne) /\ RLe(RZero, u) /\ RLe(u, ROne)

\* x_c >= value in place of x_c > value
ahead_of_sweep_or_at(x_c, value) == RLe(value, x_c)

\* x_c > value of BentleyOttmann.intersection
ahead_of_sweep(x_c, value) == RLt(value, x_c)

\* BentleyOttmann.intersection: <<state afterwards, returned bool>>
intersection(S, first_segment, second_segment, value) ==
    LET x1 == S.segments[first_segment].first_point[1]
        y1 == S.segments[first_segment].first_point[2]
        x2 == S.segments[first_segment].second_point[1]
        y2 == S.segments[first_segment].second_point[2]
        x3 == S.segments[second_segment].first_point[1]
        y3 == S.segments[second_segment].first_point[2]
        x4 == S.segments[second_segment].second_point[1]
        y4 == S.segments[second_segment].second_point[2]
    IN  Let(RSub(RMul(RSub(x2, x1), RSub(y4, y3)), RMul(RSub(y2, y1), RSub(x4, x3))),
        LAMBDA r :
        IF r = RZero THEN <<S, FALSE>> ELSE
        Let(RDiv(RSub(RMul(RSub(x3, x1), RSub(y4, y3)), RMul(RSub(y3, y1), RSub(x4, x3))), r),
        LAMBDA t :
        Let(RDiv(RSub(RMul(RSub(x3, x1), RSub(y2, y1)), RMul(RSub(y3, y1), RSub(x2, x1))), r),
        LAMBDA u :
        Let(point_at(x1, x2, t), LAMBDA x_c :
        Let(point_at(y1, y2, t), LAMBDA y_c :
        IF param_in_range(t, u) /\ ahead_of_sweep(x_c, value)
        THEN <<[S EXCEPT !.heapq = enqueue(S.heapq,
                            Event(Point(x_c, y_c), <<first_segment, second_segment>>,
                                  "INTERSECTION", S.next_id)),
                         !.next_id = @ + 1],
               TRUE>>
        ELSE <<S, FALSE>>)))))

\* BentleyOttmann.remove_duplicate: the list iterator is at position i of the
\* list that remove_by_object_id mutates during the scan
RECURSIVE remove_duplicate_loop(_, _, _, _, _)
remove_duplicate_loop(heap, segs, i, first_segment, second_segment) ==
    IF i >= Len(heap)
    THEN heap
    ELSE LET event == At(heap, i)
             hit == /\ event.type = "INTERSECTION"
                    /\ \/ /\ SegEq(segs, event.segments[1], first_segment)
                          /\ SegEq(segs, event.segments[2], second_segment)
                       \/ /\ SegEq(segs, event.segments[1], second_segment)
                          /\ SegEq(segs, event.segments[2], first_segment)
         IN  remove_duplicate_loop(
                 IF hit THEN remove_by_object_id(heap, event.id) ELSE heap,
                 segs, i + 1, first_segment, second_segment)

remove_duplicate(S, first_segment, second_segment) ==
    [S EXCEPT !.heapq = remove_duplicate_loop(S.heapq, S.segments, 0,
                                              first_segment, second_segment)]

\* BentleyOttmann.find_intersections_left_point
find_intersections_left_point(S, event) ==
    LET segment == event.segments[1]
    IN  Let(recalculate(S, event.value), LAMBDA S1 :
        Let([S1 EXCEPT !.tree = insert(S1.tree, S1.segments, segment)], LAMBDA S2 :
        IF S2.tree.raised THEN S2 ELSE
        Let(lower(S2.tree, S2.segments, segment), LAMBDA lower1 :
        Let(IF lower1 # None THEN intersection(S2, lower1, segment, event.value)[1] ELSE S2,
        LAMBDA S3 :
        Let(higher(S3.tree, S3.segments, segment), LAMBDA higher1 :
        Let(IF higher1 # None THEN intersection(S3, higher1, segment, event.value)[1] ELSE S3,
        LAMBDA S4 :
        Let(lower(S4.tree, S4.segments, segment), LAMBDA lower2 :
        Let(higher(S4.tree, S4.segments, segment), LAMBDA higher2 :
        IF lower2 # None /\ higher2 # None
        THEN remove_duplicate(S4, lower2, higher2)
        ELSE S4))))))))

\* BentleyOttmann.find_intersections_right_point
find_intersections_right_point(S, event) ==
    LET segment == event.segments[1]
    IN  Let(lower(S.tree, S.segments, segment), LAMBDA lower1 :
        Let(higher(S.tree, S.segments, segment), LAMBDA higher1 :
        Let(IF lower1 # None /\ higher1 # None
            THEN intersection(S, lower1, higher1, event.value)[1]
            ELSE S,
        LAMBDA S1 : [S1 EXCEPT !.tree = remove_key(S1.tree, S1.segments, segment)])))

\* BentleyOttmann.swap
swap(S, first_segment, second_segment) ==
    LET segs == [S.segments EXCEPT ![first_segment].value = S.segments[second_segment].value,
                                   ![second_segment].value = S.segments[first_segment].value]
    IN  Let(remove_key(S.tree, S.segments, first_segment), LAMBDA T1 :
        Let(IF T1.raised THEN T1 ELSE remove_key(T1, S.segments, second_segment), LAMBDA T2 :
        IF T2.raised THEN [S EXCEPT !.tree = T2] ELSE
        Let(insert(T2, segs, first_segment), LAMBDA T3 :
        Let(IF T3.raised THEN T3 ELSE insert(T3, segs, second_segment), LAMBDA T4 :
        [S EXCEPT !.segments = segs, !.tree = T4]))))

\* one branch of find_intersections_point_intersections: the neighbour nb of
\* segment near is tested against near, then the events of nb and far are removed
neighbour_step(S, nb, near, far, value) ==
    IF nb # None
    THEN Let(intersection(S, nb, near, value)[1], LAMBDA S1 : remove_duplicate(S1, nb, far))
    ELSE S

\* BentleyOttmann.find_intersections_point_intersections
find_intersections_point_intersections(S, event) ==
    LET first_segment == event.segments[1]
        second_segment == event.segments[2]
    IN  Let(swap(S, first_segment, second_segment), LAMBDA S1 :
        IF S1.tree.raised THEN S1 ELSE
        Let(IF RLt(S1.segments[first_segment].value, S1.segments[second_segment].value)
            THEN Let(higher(S1.tree, S1.segments, first_segment), LAMBDA higher_first :
                 Let(neighbour_step(S1, higher_first, first_segment, second_segment,
                                    event.value), LAMBDA S2 :
                 Let(lower(S2.tree, S2.segments, second_segment), LAMBDA lower_second :
                 neighbour_step(S2, lower_second, second_segment, first_segment,
                                event.value))))
            ELSE Let(higher(S1.tree, S1.segments, second_segment), LAMBDA higher_second :
                 Let(neighbour_step(S1, higher_second, second_segment, first_segment,
                                    event.value), LAMBDA S2 :
                 Let(lower(S2.tree, S2.segments, first_segment), LAMBDA lower_first :
                 neighbour_step(S2, lower_first, first_segment, second_segment,
                                event.value)))),
        LAMBDA S3 : [S3 EXCEPT !.output = @ \cup {event.point}]))

\* a < b for coordinate tuples (Python compares tuples lexicographically)
TupleLt(a, b) == RLt(a[1], b[1]) \/ (a[1] = b[1] /\ RLt(a[2], b[2]))

\* the elements of a set in the order its iterator yields them (unspecified)
RECURSIVE Iterate(_)
Iterate(s) == IF s = {} THEN <<>> ELSE LET x == CHOOSE x \in s : TRUE
                                       IN  <<x>> \o Iterate(s \ {x})

\* x put into the ascending list lst after the elements that are not above it
RECURSIVE InsertSorted(_, _)
InsertSorted(lst, x) ==
    IF lst = <<>> THEN <<x>>
    ELSE IF TupleLt(x, Head(lst)) THEN <<x>> \o lst
         ELSE <<Head(lst)>> \o InsertSorted(Tail(lst), x)

RECURSIVE SortList(_, _)
SortList(lst, acc) ==
    IF lst = <<>> THEN acc ELSE SortList(Tail(lst), InsertSorted(acc, Head(lst)))

\* list(self.output): the elements in iteration order, not sorted
sorted_not(s) == Iterate(s)

\* sorted(self.output)
sorted(s) == SortList(Iterate(s), <<>>)

\* the handler that the dict of find_intersections selects for the event
handle_event(S, event) ==
    CASE event.type = "POINT_LEFT" -> find_intersections_left_point(S, event)
      [] event.type = "POINT_RIGHT" -> find_intersections_right_point(S, event)
      [] event.type = "INTERSECTION" -> find_intersections_point_intersections(S, event)

\* one iteration of the loop of BentleyOttmann.find_intersections on a
\* non-empty queue: the state after dequeue and the event's handler
process_event(S) ==
    Let(dequeue(S.heapq), LAMBDA d : handle_event([S EXCEPT !.heapq = d[2]], d[1]))

\* the segments list built by find_intersections(lines) of __init__.py
RECURSIVE make_segments(_, _)
make_segments(lines, i) ==
    IF i > Len(lines)
    THEN <<>>
    ELSE <<Segment(Point(FromInt(lines[i][1][1]), FromInt(lines[i][1][2])),
                   Point(FromInt(lines[i][2][1]), FromInt(lines[i][2][2])))>>
         \o make_segments(lines, i + 1)

\* BentleyOttmann.find_intersections run to its end from state S: the returned
\* list, or "raised" when a handler raised
RECURSIVE run_sweep(_)
run_sweep(S) ==
    IF S.tree.raised THEN "raised"
    ELSE IF S.heapq = <<>> THEN sorted(S.output)
    ELSE run_sweep(process_event(S))

\* find_intersections(lines) of __init__.py
find_intersections(lines) == run_sweep(BentleyOttmann(make_segments(lines, 1)))

(***************************************************************************)
(* The program as a state machine: one call find_intersections(lines).     *)
(***************************************************************************)
\* lines: the argument of find_intersections; bo: the BentleyOttmann object with
\* the Segment objects it works on; pc: "sweep" inside the loop, "done" after the
\* return, "raised" after an exception; result: the returned list;
\* processed: the events dequeued so far, in order.
VARIABLES lines, bo, pc, result, processed

vars == <<lines, bo, pc, result, processed>>

segments == bo.segments
heapq == bo.heapq
tree == bo.tree
output == bo.output

\* the inputs: a line is a pair of grid points.  Lists of up to MaxSegs lines
\* given left point first (vertical lines bottom point first), and lists of up
\* to MaxRaw lines given in any orientation, zero-length lines included.
GridPoints == (0..MaxX) \X (0..MaxY)
RawLines == GridPoints \X GridPoints
LeftFirstLines == {l \in RawLines : l[1][1] < l[2][1] \/ (l[1][1] = l[2][1] /\ l[1][2] < l[2][2])}
ListsOf(S, n) == UNION {[1..k -> S] : k \in 1..n}
\* the third concrete scenario of the specification: two diagonals and a
\* horizontal line
Scenario3 == << <<<<0, 0>>, <<4, 4>>>>, <<<<0, 4>>, <<4, 0>>>>, <<<<0, 2>>, <<4, 2>>>> >>
\* three lines that start at x = 0: the first ends at (1, 1), the other two
\* cross it and end at the same point (2, 0)
SharedRightEnd == << <<<<0, 0>>, <<1, 1>>>>, <<<<0, 1>>, <<2, 0>>>>, <<<<0, 2>>, <<2, 0>>>> >>
Inputs ==
    ListsOf(LeftFirstLines, MaxSegs) \cup ListsOf(RawLines, MaxRaw)
        \cup {Scenario3, SharedRightEnd}

Init ==
    /\ lines \in Inputs
    /\ bo = BentleyOttmann(make_segments(lines, 1))
    /\ pc = "sweep"
    /\ result = <<>>
    /\ processed = <<>>

\* the loop of find_intersections is about to dequeue an event of the given type
AtEvent(type_) ==
    /\ pc = "sweep"
    /\ heapq # <<>>
    /\ Len(processed) < MaxEvents
    /\ heapq[1].type = type_

\* one loop iteration: dequeue, then find_intersections_left_point
LeftPoint ==
    /\ AtEvent("POINT_LEFT")
    /\ bo' = process_event(bo)
    /\ pc' = IF bo'.tree.raised THEN "raised" ELSE "sweep"
    /\ processed' = Append(processed, heapq[1])
    /\ UNCHANGED <<lines, result>>

\* one loop iteration: dequeue, then find_intersections_right_point
RightPoint ==
    /\ AtEvent("POINT_RIGHT")
    /\ bo' = process_event(bo)
    /\ pc' = IF bo'.tree.raised THEN "raised" ELSE "sweep"
    /\ processed' = Append(processed, heapq[1])
    /\ UNCHANGED <<lines, result>>

\* one loop iteration: dequeue, then find_intersections_point_intersections
PointIntersection ==
    /\ AtEvent("INTERSECTION")
    /\ bo' = process_event(bo)
    /\ pc' = IF bo'.tree.raised THEN "raised" ELSE "sweep"
    /\ processed' = Append(processed, heapq[1])
    /\ UNCHANGED <<lines, result>>

\* the queue is empty: return sorted(self.output)
Return ==
    /\ pc = "sweep"
    /\ heapq = <<>>
    /\ result' = sorted(output)
    /\ pc' = "done"
    /\ UNCHANGED <<lines, bo, processed>>

Next == LeftPoint \/ RightPoint \/ PointIntersection \/ Return

Spec == Init /\ [][Next]_vars

(***************************************************************************)
(* A PriorityQueue on its own: Event objects are created and pushed, the   *)
(* queue is popped (also when empty), and objects are removed by identity. *)
(* bo.heapq is the queue's list, bo.next_id the identity of the next       *)
(* created Event, result what the last dequeue returned or raised, and     *)
(* processed holds the last call: its name, its argument and the list      *)
(* before it.                                                              *)
(***************************************************************************)
QueuePoints == {Point(FromInt(x), RZero) : x \in 0..MaxQueueX}

Call(op, arg, before) == <<[op |-> op, arg |-> arg, before |-> before]>>

QueueInit ==
    /\ lines = <<>>
    /\ bo = [segments |-> <<>>, heapq |-> <<>>, tree |-> BaseTree, output |-> {}, next_id |-> 1]
    /\ pc = "queue"
    /\ result = <<>>
    /\ processed = <<>>

\* queue.enqueue(Event(point, ...)) with a newly created Event
Enqueue ==
    /\ pc = "queue"
    /\ bo.next_id <= MaxQueueEvents
    /\ \E point \in QueuePoints :
           bo' = [bo EXCEPT !.heapq = enqueue(@, Event(point, <<1, 2>>, "INTERSECTION",
                                                      bo.next_id)),
                            !.next_id = @ + 1]
    /\ processed' = Call("enqueue", bo.next_id, heapq)
    /\ UNCHANGED <<lines, pc, result>>

\* queue.dequeue() on a non-empty queue
Dequeue ==
    /\ pc = "queue"
    /\ heapq # <<>>
    /\ result' = dequeue(heapq)[1]
    /\ bo' = [bo EXCEPT !.heapq = dequeue(heapq)[2]]
    /\ processed' = Call("dequeue", None, heapq)
    /\ UNCHANGED <<lines, pc>>

\* queue.dequeue() on an empty queue
DequeueEmpty ==
    /\ pc = "queue"
    /\ heapq = <<>>
    /\ result' = dequeue_empty_raises
    /\ processed' = Call("dequeue", None, heapq)
    /\ UNCHANGED <<lines, bo, pc>>

\* queue.remove_by_object_id(e) for an Event object e created so far, pending or
\* not, or for one that was never pushed (identity bo.next_id)
RemoveByObjectId ==
    /\ pc = "queue"
    /\ \E id \in 1..bo.next_id :
           /\ bo' = [bo EXCEPT !.heapq = remove_by_object_id(@, id)]
           /\ processed' = Call("remove_by_object_id", id, heapq)
    /\ UNCHANGED <<lines, pc, result>>

QueueNext == Enqueue \/ Dequeue \/ DequeueEmpty \/ RemoveByObjectId

QueueSpec == QueueInit /\ [][QueueNext]_vars

(***************************************************************************)
(* An AVLTree on its own: the keys are MaxKeys Segment objects whose       *)
(* ordering values do not change, and insert and remove_key are called in  *)
(* any order.  bo.segments are the key objects, bo.tree is the tree,       *)
(* result counts the calls made, and processed holds the last call: its    *)
(* name, its argument and, as `before`, the in-order keys before the call, *)
(* the number of children of the node that find gave for the argument (-1  *)
(* when it gave None) and whether that node was the root.                  *)
(***************************************************************************)
\* the key object k is the horizontal segment at height values[k]
TreeSegments(values) ==
    [k \in 1..MaxKeys |-> Segment(Point(RZero, FromInt(values[k])),
                                  Point(ROne, FromInt(values[k])))]

\* the ordering values of the keys: all different, or equal in pairs
TreeValues == {[k \in 1..MaxKeys |-> k], [k \in 1..MaxKeys |-> (k + 1) \div 2]}

\* what the tree holds for key before a call
Found(T, segs, key) ==
    LET n == find(T, segs, key)
    IN  [keys |-> inorder(T.node, T.root_node),
         children |-> IF n = None THEN -1
                      ELSE Cardinality({c \in {T.node[n].left_child, T.node[n].right_child} :
                                            c # None}),
         root |-> n # None /\ n = T.root_node]

TreeInit ==
    /\ lines = <<>>
    /\ \E values \in TreeValues :
           bo = [segments |-> TreeSegments(values), heapq |-> <<>>, tree |-> BaseTree,
                 output |-> {}, next_id |-> 1]
    /\ pc = "tree"
    /\ result = 0
    /\ processed = <<>>

\* tree.insert(key)
Insert ==
    /\ pc = "tree"
    /\ result < MaxTreeCalls
    /\ \E key \in 1..MaxKeys :
           /\ bo' = [bo EXCEPT !.tree = insert(@, segments, key)]
           /\ processed' = Call("insert", key, Found(tree, segments, key))
    /\ pc' = IF bo'.tree.raised THEN "raised" ELSE "tree"
    /\ result' = result + 1
    /\ UNCHANGED lines

\* tree.remove_key(key)
RemoveKey ==
    /\ pc = "tree"
    /\ result < MaxTreeCalls
    /\ \E key \in 1..MaxKeys :
           /\ bo' = [bo EXCEPT !.tree = remove_key(@, segments, key)]
           /\ processed' = Call("remove_key", key, Found(tree, segments, key))
    /\ pc' = IF bo'.tree.raised THEN "raised" ELSE "tree"
    /\ result' = result + 1
    /\ UNCHANGED lines

TreeNext == Insert \/ RemoveKey

TreeSpec == TreeInit /\ [][TreeNext]_vars

(***************************************************************************)
(* A Segment on its own: lines holds the two points it was constructed     *)
(* from, bo.segments the Segment object, result counts the calls of        *)
(* calculate_value made, and processed holds the last call: its argument   *)
(* and, as `before`, the value the segment had before the call.            *)
(***************************************************************************)
ValuePoints == (0..MaxValueX) \X (0..MaxValueY)

ValueInit ==
    /\ lines \in {<<<<a, b>>>> : a \in ValuePoints, b \in ValuePoints}
    /\ bo = [segments |-> make_segments(lines, 1), heapq |-> <<>>, tree |-> BaseTree,
             output |-> {}, next_id |-> 1]
    /\ pc = "value"
    /\ result = 0
    /\ processed = <<>>

\* segment.calculate_value(value)
CalculateValue ==
    /\ pc = "value"
    /\ result < MaxValueCalls
    /\ \E value \in 0..MaxValueX :
           /\ bo' = [bo EXCEPT !.segments[1].value =
                                   calculate_value(segments[1], FromInt(value))]
           /\ processed' = Call("calculate_value", value, segments[1].value)
    /\ result' = result + 1
    /\ UNCHANGED <<lines, pc>>

ValueNext == CalculateValue

ValueSpec == ValueInit /\ [][ValueNext]_vars

(***************************************************************************)
(* crud.py: one board and its stored intersection points.  lines are the   *)
(* board's lines, bo is [points, next_id, calls]: the rows of the table of *)
(* BentleyOttmannPoints that belong to the board, in the order they were   *)
(* inserted, the id the next row gets, and the number of calls of          *)
(* find_intersection_for_board made; result is the list the last call got  *)
(* from find_intersections, and processed holds the last call, with the    *)
(* rows before it as `before`.                                             *)
(***************************************************************************)
\* delete_old_intersection_points: the loop over board.bentley_ottmann_points,
\* the list loaded from the table when the loop starts; db.delete and
\* db.commit take the row of each point out of the table
RECURSIVE delete_old_intersection_points_loop(_, _, _)
delete_old_intersection_points_loop(table, points, i) ==
    IF i > Len(points)
    THEN table
    ELSE delete_old_intersection_points_loop(
             SelectSeq(table, LAMBDA row : row.id # points[i].id), points, i + 1)

\* the old rows are left in the table
delete_old_intersection_points_skipped(table) == table

delete_old_intersection_points(table) ==
    delete_old_intersection_points_loop(table, table, 1)

\* the loop of find_intersection_for_board: create(...) for enumerate(points, 1);
\* the name f"P{idx}" is the pair <<"P", idx>>
RECURSIVE create_points(_, _, _, _)
create_points(table, points, idx, next_id) ==
    IF idx > Len(points)
    THEN table
    ELSE create_points(
             Append(table, [id |-> next_id, point |-> points[idx], name |-> <<"P", idx>>]),
             points, idx + 1, next_id + 1)

\* find_intersection_for_board: the table afterwards, for the list `points`
\* that find_intersections returned
find_intersection_for_board(table, points, next_id) ==
    create_points(delete_old_intersection_points(table), points, 1, next_id)

\* the lines added to the board: two diagonals, a line through their crossing
\* point and a line that crosses both diagonals elsewhere
BoardLines ==
    { <<<<0, 0>>, <<4, 4>>>>, <<<<0, 4>>, <<4, 0>>>>,
      <<<<0, 1>>, <<4, 3>>>>, <<<<0, 3>>, <<4, 3>>>> }

BoardInit ==
    /\ lines = <<>>
    /\ bo = [points |-> <<>>, next_id |-> 1, calls |-> 0]
    /\ pc = "board"
    /\ result = <<>>
    /\ processed = <<>>

\* POST /boards/{name}/lines/: create_line_and_add_to_bord
CreateLine ==
    /\ pc = "board"
    /\ Len(lines) < MaxBoardLines
    /\ \E line \in BoardLines :
           /\ lines' = Append(lines, line)
           /\ processed' = Call("create_line", line, bo.points)
    /\ UNCHANGED <<bo, pc, result>>

\* POST /boards/{name}/intersection-points/: find_intersection_for_board
FindIntersectionPoints ==
    /\ pc = "board"
    /\ bo.calls < MaxBoardCalls
    /\ result' = find_intersections(lines)
    /\ IF result' = "raised"
       THEN /\ bo' = [bo EXCEPT !.points = delete_old_intersection_points(@),
                                !.calls = @ + 1]
            /\ pc' = "raised"
       ELSE /\ bo' = [points |-> find_intersection_for_board(bo.points, result', bo.next_id),
                      next_id |-> bo.next_id + Len(result'),
                      calls |-> bo.calls + 1]
            /\ pc' = "board"
    /\ processed' = Call("find_intersection_for_board", lines, bo.points)
    /\ UNCHANGED lines

BoardNext == CreateLine \/ FindIntersectionPoints

BoardSpec == BoardInit /\ [][BoardNext]_vars

(***************************************************************************)
(* Geometry of the input lines, in integers, used to state the properties. *)
(***************************************************************************)
X1(l) == l[1][1]
Y1(l) == l[1][2]
X2(l) == l[2][1]
Y2(l) == l[2][2]

\* the determinant of the directions of l and m (zero: parallel or degenerate)
Det(l, m) == (X2(l) - X1(l)) * (Y2(m) - Y1(m)) - (Y2(l) - Y1(l)) * (X2(m) - X1(m))
\* numerators of the parameters of the common point on l and on m
TNum(l, m) == (X1(m) - X1(l)) * (Y2(m) - Y1(m)) - (Y1(m) - Y1(l)) * (X2(m) - X1(m))
UNum(l, m) == (X1(m) - X1(l)) * (Y2(l) - Y1(l)) - (Y1(m) - Y1(l)) * (X2(l) - X1(l))

StrictlyBetween0And1(num, den) ==
    IF den > 0 THEN 0 < num /\ num < den ELSE den < num /\ num < 0

\* l and m cross at a point strictly inside both
StrictCrossing(l, m) ==
    /\ Det(l, m) # 0
    /\ StrictlyBetween0And1(TNum(l, m), Det(l, m))
    /\ StrictlyBetween0And1(UNum(l, m), Det(l, m))

\* the common point of two non-parallel lines
CrossPoint(l, m) ==
    <<Rat(X1(l) * Det(l, m) + TNum(l, m) * (X2(l) - X1(l)), Det(l, m)),
      Rat(Y1(l) * Det(l, m) + TNum(l, m) * (Y2(l) - Y1(l)), Det(l, m))>>

Between(a, v, b) == (RLe(a, v) /\ RLe(v, b)) \/ (RLe(b, v) /\ RLe(v, a))

\* the point p (rational coordinates) lies on the closed segment l
OnLine(p, l) ==
    /\ RMul(FromInt(X2(l) - X1(l)), RSub(p[2], FromInt(Y1(l))))
         = RMul(FromInt(Y2(l) - Y1(l)), RSub(p[1], FromInt(X1(l))))
    /\ Between(FromInt(X1(l)), p[1], FromInt(X2(l)))
    /\ Between(FromInt(Y1(l)), p[2], FromInt(Y2(l)))

Occurrences(lst, x) == Cardinality({k \in DOMAIN lst : lst[k] = x})

IsVertical(l) == X1(l) = X2(l) /\ Y1(l) # Y2(l)
IsZeroLength(l) == l[1] = l[2]

\* the left and the right endpoint of a line as Segment.__init__ orders them
LeftEnd(l) == IF X1(l) <= X2(l) THEN l[1] ELSE l[2]
RightEnd(l) == IF X1(l) <= X2(l) THEN l[2] ELSE l[1]

\* l and m have two distinct endpoints each, share exactly one endpoint and
\* have no other common point
EndpointTouch(l, m) ==
    /\ ~IsZeroLength(l) /\ ~IsZeroLength(m)
    /\ Cardinality({l[1], l[2]} \cap {m[1], m[2]}) = 1
    /\ LET s == CHOOSE q \in {l[1], l[2]} \cap {m[1], m[2]} : TRUE
           a == IF l[1] = s THEN l[2] ELSE l[1]
           b == IF m[1] = s THEN m[2] ELSE m[1]
       IN  \/ Det(l, m) # 0
           \/ (a[1] - s[1]) * (b[1] - s[1]) + (a[2] - s[2]) * (b[2] - s[2]) < 0

SharedEndpoint(l, m) ==
    LET s == CHOOSE q \in {l[1], l[2]} \cap {m[1], m[2]} : TRUE
    IN  <<FromInt(s[1]), FromInt(s[2])>>

\* the lists obtained from lst by permuting its elements
PermutationsOf(lst) ==
    {[i \in DOMAIN lst |-> lst[f[i]]] :
        f \in {g \in [DOMAIN lst -> DOMAIN lst] : \A a, b \in DOMAIN lst : g[a] = g[b] => a = b}}

(***************************************************************************)
(* Properties.                                                             *)
(***************************************************************************)
\* C1: every pair of input lines that cross strictly inside both has its
\* crossing point exactly once in the returned list.
NoFalseNegatives ==
    pc = "done" =>
        \A i, j \in DOMAIN lines :
            (i < j /\ StrictCrossing(lines[i], lines[j]))
                => Occurrences(result, CrossPoint(lines[i], lines[j])) = 1

\* C2: every returned point lies on two distinct, non-parallel input lines; so
\* pairwise disjoint or parallel lines give the empty list.
NoFalsePositives ==
    pc = "done" =>
        \A k \in DOMAIN result :
            \E i, j \in DOMAIN lines :
                /\ i # j
                /\ Det(lines[i], lines[j]) # 0
                /\ OnLine(result[k], lines[i])
                /\ OnLine(result[k], lines[j])

\* C2 witness: a sweep of three lines returned a point, and one of the lines
\* carries none of the returned points
NoFalsePositivesWitness ==
    /\ pc = "done"
    /\ Len(lines) = 3
    /\ result # <<>>
    /\ \E i \in DOMAIN lines : \A j \in DOMAIN lines, k \in DOMAIN result :
           j # i => ~OnLine(result[k], lines[i])

\* C3: the returned list is strictly increasing in (x, then y) order.
StrictlySorted ==
    pc = "done" =>
        \A k \in 1..(Len(result) - 1) :
            \/ RLt(result[k][1], result[k + 1][1])
            \/ (result[k][1] = result[k + 1][1] /\ RLt(result[k][2], result[k + 1][2]))

\* C3 witness: INTERSECTION events of two different pairs of segments were
\* processed at the same point, and the returned list holds that point once
StrictlySortedWitness ==
    /\ pc = "done"
    /\ \E a, b \in DOMAIN processed :
           /\ a < b
           /\ processed[a].type = "INTERSECTION"
           /\ processed[b].type = "INTERSECTION"
           /\ processed[a].point = processed[b].point
           /\ {processed[a].segments[1], processed[a].segments[2]}
                # {processed[b].segments[1], processed[b].segments[2]}
           /\ Occurrences(result, processed[a].point) = 1

\* C4: every permutation of the input list gives the same returned list.
OrderIndependence ==
    pc = "done" => \A perm \in PermutationsOf(lines) : find_intersections(perm) = result

\* C6: the sweep loop ends: no sweep is still inside the loop with a non-empty
\* queue after MaxEvents iterations, so every sweep empties its queue and
\* returns (each iteration dequeues one event; with an empty queue the loop exits).
Termination ==
    (pc = "sweep" /\ heapq # <<>>) => Len(processed) < MaxEvents

\* C6 witness: a sweep in which intersection tests pushed events has returned
TerminationWitness ==
    /\ pc = "done"
    /\ \E a \in DOMAIN processed : processed[a].type = "INTERSECTION"

\* C7: an input of lines with two distinct endpoints each never raises.
NoException ==
    (\A i \in DOMAIN lines : ~IsZeroLength(lines[i])) => pc # "raised"

\* C7 witness: a sweep over an input with a vertical line and two parallel
\* lines, in which the tree was rebalanced, has returned
NoExceptionWitness ==
    /\ pc = "done"
    /\ \A i \in DOMAIN lines : ~IsZeroLength(lines[i])
    /\ \E i \in DOMAIN lines : IsVertical(lines[i])
    /\ tree.rebalances > 0

\* C8: with a zero-length line in the input no event is ever dequeued and
\* nothing is returned.
DegenerateRejected ==
    (\E i \in DOMAIN lines : IsZeroLength(lines[i])) => (processed = <<>> /\ pc # "done")

\* C9: appending a second copy of one of the lines does not change the number
\* of returned points.
IdempotentDedup ==
    pc = "done" =>
        \A i \in DOMAIN lines :
            Len(find_intersections(Append(lines, lines[i]))) = Len(result)

\* C10: two lines that share exactly one endpoint and nothing else give no
\* point other than the shared endpoint, and give it at most once.
EndpointTouchNoSpurious ==
    (pc = "done" /\ Len(lines) = 2 /\ EndpointTouch(lines[1], lines[2])) =>
        /\ \A k \in DOMAIN result : result[k] = SharedEndpoint(lines[1], lines[2])
        /\ Len(result) <= 1

\* C10 witness: two lines with a common right endpoint returned that endpoint
EndpointTouchWitness ==
    /\ pc = "done"
    /\ Len(lines) = 2
    /\ EndpointTouch(lines[1], lines[2])
    /\ RightEnd(lines[1]) = RightEnd(lines[2])
    /\ result = <<SharedEndpoint(lines[1], lines[2])>>

\* C11: two lines that merely touch at a common endpoint do not have that
\* endpoint in the returned list, whichever endpoint it is.
EndpointNotReported ==
    (pc = "done" /\ Len(lines) = 2 /\ EndpointTouch(lines[1], lines[2])) =>
        Occurrences(result, SharedEndpoint(lines[1], lines[2])) = 0

\* C12: the third concrete scenario returns exactly three distinct points,
\* (2, 2) among them, all at x = 2.
ConcreteScenario3 ==
    (pc = "done" /\ lines = Scenario3) =>
        /\ Len(result) = 3
        /\ Occurrences(result, <<FromInt(2), FromInt(2)>>) = 1
        /\ \A k \in DOMAIN result : result[k][1] = FromInt(2)
        /\ \A j, k \in DOMAIN result : j # k => result[j] # result[k]

\* C13: the event at the head of the queue has the smallest x of the pending
\* events, no pending event is behind the last processed one, and the x of
\* the processed events never decreases.
SweepMonotone ==
    /\ \A i \in DOMAIN heapq : RLe(heapq[1].value, heapq[i].value)
    /\ \A i \in DOMAIN heapq :
           processed # <<>> => RLe(processed[Len(processed)].value, heapq[i].value)
    /\ \A k \in 1..(Len(processed) - 1) : RLe(processed[k].value, processed[k + 1].value)

\* C13 witness: a sweep has returned in which an INTERSECTION event was
\* processed and a created event was removed from the queue without being
\* processed
SweepMonotoneWitness ==
    /\ pc = "done"
    /\ \E a \in DOMAIN processed : processed[a].type = "INTERSECTION"
    /\ bo.next_id - 1 > Len(processed)

\* the pending events of a queue list (every Event has its own identity)
Pending(heap) == {heap[i] : i \in DOMAIN heap}

\* C14: dequeue on an empty queue fails with EmptyQueueError and leaves the
\* queue empty.
EmptyQueueSignal ==
    (pc = "queue" /\ processed # <<>> /\ processed[1].op = "dequeue"
                  /\ processed[1].before = <<>>)
        => (result = "EmptyQueueError" /\ heapq = <<>>)

\* C15: remove_by_object_id(e) takes exactly the event e out of the pending
\* events when e is pending, and leaves the pending events as they are when
\* e is not pending.
RemovalByIdentity ==
    (pc = "queue" /\ processed # <<>> /\ processed[1].op = "remove_by_object_id") =>
        LET before == processed[1].before
            hit == {e \in Pending(before) : e.id = processed[1].arg}
        IN  /\ Pending(heapq) = Pending(before) \ hit
            /\ Len(heapq) = Len(before) - Cardinality(hit)

\* C15 witness: a pending event was removed while a distinct event with the
\* same coordinates, type and segments was pending, and that one is still
\* pending
RemovalByIdentityWitness ==
    /\ pc = "queue"
    /\ processed # <<>>
    /\ processed[1].op = "remove_by_object_id"
    /\ \E e \in Pending(processed[1].before), f \in Pending(heapq) :
           /\ e.id = processed[1].arg
           /\ f.id # e.id
           /\ [f EXCEPT !.id = 0] = [e EXCEPT !.id = 0]

\* the nodes of the subtree of n
RECURSIVE Subtree(_, _)
Subtree(nd, n) ==
    IF n = None \/ n \notin DOMAIN nd THEN {}
    ELSE {n} \cup Subtree(nd, nd[n].left_child) \cup Subtree(nd, nd[n].right_child)

\* C16: after every insert and remove_key on a tree no call has raised, every
\* node's height is 1 + the larger height of its children (-1 for an absent
\* child), its balance factor is -1, 0 or 1, every child names its parent,
\* the root has no parent, and the live nodes are those under the root.
AVLShape ==
    pc \in {"tree", "raised"} =>
        LET nd == tree.node
        IN  /\ pc = "tree"
            /\ tree.root_node = None => DOMAIN nd = {}
            /\ tree.root_node # None =>
                   (tree.root_node \in DOMAIN nd /\ nd[tree.root_node].parent = None)
            /\ Subtree(nd, tree.root_node) = DOMAIN nd
            /\ \A n \in DOMAIN nd :
                   /\ nd[n].height = 1 + Max(get_height_for_child(nd, nd[n].left_child),
                                             get_height_for_child(nd, nd[n].right_child))
                   /\ balance(nd, n) \in {-1, 0, 1}
                   /\ \A c \in {nd[n].left_child, nd[n].right_child} :
                          c # None => (c \in DOMAIN nd /\ nd[c].parent = n)

\* C16 witness: remove_key took out a node with two children that was not the
\* root, and the tree was rebalanced on the way
AVLShapeWitness ==
    /\ pc = "tree"
    /\ processed # <<>>
    /\ processed[1].op = "remove_key"
    /\ processed[1].before.children = 2
    /\ ~processed[1].before.root
    /\ Len(inorder(tree.node, tree.root_node)) = Len(processed[1].before.keys) - 1
    /\ tree.rebalances > 0

\* the identities of the events processed so far
ProcessedIds == {processed[k].id : k \in DOMAIN processed}

\* the segments whose POINT_LEFT event was processed and whose POINT_RIGHT
\* event was not (Event identities 2i - 1 and 2i of segment i)
Active == {i \in DOMAIN segments : (2 * i - 1) \in ProcessedIds /\ (2 * i) \notin ProcessedIds}

\* the y of segment i at x = v, for a segment that is not vertical
YAt(i, v) == calculate_value(segments[i], v)

\* the sequence of rationals is non-increasing, or it is non-decreasing
Monotone(ys) ==
    \/ \A k \in 1..(Len(ys) - 1) : RLe(ys[k], ys[k + 1])
    \/ \A k \in 1..(Len(ys) - 1) : RLe(ys[k + 1], ys[k])

\* C17: when every event with x at most v (the x of the last processed event)
\* has been processed and no event with larger x has, the tree holds exactly
\* the segments whose left event was processed and whose right event was
\* not, and its in-order sequence is ordered by the segments' y at x = v.
SweepStatusInvariant ==
    (/\ pc \in {"sweep", "done"}
     /\ processed # <<>>
     /\ \A i \in DOMAIN heapq : RLt(processed[Len(processed)].value, heapq[i].value)) =>
        LET keys == inorder(tree.node, tree.root_node)
            v == processed[Len(processed)].value
        IN  /\ {keys[k] : k \in DOMAIN keys} = Active
            /\ Len(keys) = Cardinality(Active)
            /\ (\A k \in DOMAIN keys :
                    segments[keys[k]].first_point[1] # segments[keys[k]].second_point[1])
                   => Monotone([k \in DOMAIN keys |-> YAt(keys[k], v)])

\* the list without the key s
Without(keys, s) == SelectSeq(keys, LAMBDA k : k # s)

\* C19: the remove_key(s) that the handler of a POINT_RIGHT event calls leaves
\* the in-order sequence of the tree as it was with s deleted, and unchanged
\* when s was not in the tree.
RemoveKeyExact ==
    [][RightPoint =>
          inorder(tree'.node, tree'.root_node)
              = Without(inorder(tree.node, tree.root_node), heapq[1].segments[1])]_vars

\* the events of the queue list that pair the segments a and b
PairEvents(heap, a, b) ==
    {e \in Pending(heap) : e.type = "INTERSECTION"
                            /\ {e.segments[1], e.segments[2]} = {a, b}}

\* C18: in every state of a sweep, remove_duplicate(a, b) for two segments a
\* and b takes exactly the INTERSECTION events of the segments a and b out of
\* the queue.
RemoveDuplicateExact ==
    pc = "sweep" =>
        \A a, b \in DOMAIN segments :
            a # b => Pending(remove_duplicate(bo, a, b).heapq)
                         = Pending(heapq) \ PairEvents(heapq, a, b)

\* C20: two distinct segments whose POINT_LEFT events were processed and whose
\* POINT_RIGHT events were not never compare equal, and both are keys of the
\* tree, also when their ordering values are equal.
TieBrokenByIdentity ==
    pc = "sweep" =>
        \A a, b \in Active :
            a # b =>
                /\ ~SegEq(segments, a, b)
                /\ SegLt(segments, a, b) \/ SegLt(segments, b, a)
                /\ LET keys == inorder(tree.node, tree.root_node)
                   IN  {a, b} \subseteq {keys[k] : k \in DOMAIN keys}

\* keys with k put in after its members that are less than k
InsertedAt(segs, keys, k) ==
    LET j == Cardinality({i \in DOMAIN keys : SegLt(segs, keys[i], k)})
    IN  SubSeq(keys, 1, j) \o <<k>> \o SubSeq(keys, j + 1, Len(keys))

\* C21: tree.insert(k) on a tree that holds a key comparing equal to k leaves
\* the whole tree as it was; on a tree that holds none, the in-order keys
\* afterwards are the ones before with k added at its sorted position.
InsertGuard ==
    [][Insert =>
          LET k == processed'[1].arg
              before == inorder(tree.node, tree.root_node)
              after == inorder(bo'.tree.node, bo'.tree.root_node)
          IN  IF \E i \in DOMAIN before : SegEq(segments, before[i], k)
              THEN bo'.tree = tree
              ELSE after = InsertedAt(segments, before, k)]_vars

\* C21 witness: insert was called with a key that compares equal to a
\* different key object of a tree of three or more keys
InsertGuardWitness ==
    /\ pc = "tree"
    /\ processed # <<>>
    /\ processed[1].op = "insert"
    /\ Len(processed[1].before.keys) >= 3
    /\ processed[1].before.children >= 0
    /\ \A i \in DOMAIN processed[1].before.keys :
           processed[1].before.keys[i] # processed[1].arg
    /\ inorder(tree.node, tree.root_node) = processed[1].before.keys

\* the stored ordering values of the tree's keys, in in-order
StoredValues(S) ==
    LET keys == inorder(S.tree.node, S.tree.root_node)
    IN  [k \in DOMAIN keys |-> S.segments[keys[k]].value]

\* the sequence of rationals is strictly increasing, or strictly decreasing
StrictlyMonotone(vs) ==
    \/ \A k \in 1..(Len(vs) - 1) : RLt(vs[k], vs[k + 1])
    \/ \A k \in 1..(Len(vs) - 1) : RLt(vs[k + 1], vs[k])

\* the sweep states in which the handler of the next event searches the tree:
\* POINT_LEFT after recalculate and after insert, POINT_RIGHT as the handler
\* starts, INTERSECTION as the handler starts and after swap
SearchStates ==
    LET event == heapq[1]
    IN  CASE event.type = "POINT_LEFT" ->
                 LET S1 == recalculate(bo, event.value)
                 IN  {S1, [S1 EXCEPT !.tree = insert(S1.tree, S1.segments, event.segments[1])]}
          [] event.type = "POINT_RIGHT" -> {bo}
          [] event.type = "INTERSECTION" ->
                 {bo, swap(bo, event.segments[1], event.segments[2])}

\* C22: whenever a handler of the sweep searches the tree, the stored
\* ordering values of the tree's keys are strictly monotone along the
\* in-order traversal (stated for sweeps over lines none of which is vertical).
SearchOrderInvariant ==
    (/\ pc = "sweep"
     /\ heapq # <<>>
     /\ \A i \in DOMAIN lines : ~IsVertical(lines[i])) =>
        \A S \in SearchStates : ~S.tree.raised => StrictlyMonotone(StoredValues(S))

\* C23: for every key s of a tree whose in-order sequence is sorted by the
\* stored values, lower(s) is the key just before s in the in-order sequence
\* and higher(s) the key just after it, None at the ends and never s itself
\* (stated for the trees of sweeps over lines none of which is vertical).
NeighbourQueries ==
    (/\ pc = "sweep"
     /\ \A i \in DOMAIN lines : ~IsVertical(lines[i])
     /\ Monotone(StoredValues(bo))) =>
        LET keys == inorder(tree.node, tree.root_node)
        IN  \A i \in DOMAIN keys :
                /\ lower(tree, segments, keys[i]) = (IF i = 1 THEN None ELSE keys[i - 1])
                /\ higher(tree, segments, keys[i]) =
                       (IF i = Len(keys) THEN None ELSE keys[i + 1])
                /\ lower(tree, segments, keys[i]) # keys[i]
                /\ higher(tree, segments, keys[i]) # keys[i]

\* C24: for every node n of a tree built by insert and remove_key calls,
\* get_left(n) is the node just before n in the in-order traversal and
\* get_right(n) the node just after it, None when there is none.
NodeNeighbourWalks ==
    pc = "tree" =>
        LET ns == inorder_nodes(tree.node, tree.root_node)
        IN  \A i \in DOMAIN ns :
                /\ get_left(tree.node, ns[i]) = (IF i = 1 THEN None ELSE ns[i - 1])
                /\ get_right(tree.node, ns[i]) = (IF i = Len(ns) THEN None ELSE ns[i + 1])

\* the closed segments l and m are not parallel and have a common point
Meet(l, m) ==
    /\ Det(l, m) # 0
    /\ OnLine(CrossPoint(l, m), l)
    /\ OnLine(CrossPoint(l, m), m)

\* the sweep positions intersection is asked about
SweepValues == {FromInt(x) : x \in 0..MaxX}

\* C25: in every state of a sweep, intersection(a, b, v) for two segments a
\* and b returns True exactly when a and b are not parallel, have a common
\* point and that point's x is greater than v; it then adds to the queue one
\* INTERSECTION event at that point with the segments [a, b], and otherwise
\* leaves the queue as it is; the tree, the output and the segments are never
\* changed.
IntersectionTest ==
    pc = "sweep" =>
        \A a, b \in DOMAIN segments : \A v \in SweepValues : a # b =>
            LET r == intersection(bo, a, b, v)
                hit == /\ Meet(lines[a], lines[b])
                       /\ RLt(v, CrossPoint(lines[a], lines[b])[1])
                added == Pending(r[1].heapq) \ Pending(heapq)
            IN  /\ r[2] = hit
                /\ r[1].tree = tree
                /\ r[1].output = output
                /\ r[1].segments = segments
                /\ ~hit => r[1].heapq = heapq
                /\ hit => /\ Len(r[1].heapq) = Len(heapq) + 1
                          /\ Pending(heapq) \subseteq Pending(r[1].heapq)
                          /\ \A e \in added :
                                 /\ e.type = "INTERSECTION"
                                 /\ e.point = CrossPoint(lines[a], lines[b])
                                 /\ e.value = e.point[1]
                                 /\ e.segments = <<a, b>>
                          /\ Cardinality(added) = 1

\* C25 witness: during a sweep the queue holds an INTERSECTION event that a
\* handler's call of intersection added, and another pair of the segments
\* meets at a point that is not ahead of the last processed event, for which
\* intersection returns False
IntersectionTestWitness ==
    /\ pc = "sweep"
    /\ processed # <<>>
    /\ \E e \in Pending(heapq) :
           /\ e.type = "INTERSECTION"
           /\ e.point = CrossPoint(lines[e.segments[1]], lines[e.segments[2]])
    /\ \E a, b \in DOMAIN segments :
           /\ Meet(lines[a], lines[b])
           /\ ~intersection(bo, a, b, processed[Len(processed)].value)[2]

\* the position of key s in the list of keys, 0 when it is not in it
IndexOf(keys, s) ==
    IF \E i \in DOMAIN keys : keys[i] = s
    THEN CHOOSE i \in DOMAIN keys : keys[i] = s
    ELSE 0

\* C26: after the handler of a POINT_LEFT event of segment s, s is a key of
\* the tree; if s has a key p before it and a key q after it in in-order, the
\* queue holds no INTERSECTION event of p and q; and the events added to the
\* queue are INTERSECTION events of s with p or of s with q (stated for
\* sweeps over lines none of which is vertical).
LeftPointHandling ==
    [][(LeftPoint /\ \A i \in DOMAIN lines : ~IsVertical(lines[i])) =>
          LET s == heapq[1].segments[1]
              keys == inorder(bo'.tree.node, bo'.tree.root_node)
              k == IndexOf(keys, s)
              p == IF k > 1 THEN keys[k - 1] ELSE None
              q == IF k > 0 /\ k < Len(keys) THEN keys[k + 1] ELSE None
          IN  /\ k # 0
              /\ (p # None /\ q # None) => PairEvents(bo'.heapq, p, q) = {}
              /\ \A e \in Pending(bo'.heapq) \ Pending(heapq) :
                     /\ e.type = "INTERSECTION"
                     /\ {e.segments[1], e.segments[2]} \in {{s, p}, {s, q}}]_vars

\* C27: the handler of a POINT_RIGHT event of segment s tests the key p
\* before s and the key q after s in in-order against each other when both
\* exist (the queue afterwards is the one intersection(p, q) leaves), and
\* after it s is not a key of the tree while every other key still is
\* (stated for sweeps over lines none of which is vertical).
RightPointHandling ==
    [][(RightPoint /\ \A i \in DOMAIN lines : ~IsVertical(lines[i])) =>
          LET s == heapq[1].segments[1]
              before == inorder(tree.node, tree.root_node)
              after == inorder(bo'.tree.node, bo'.tree.root_node)
              k == IndexOf(before, s)
              p == IF k > 1 THEN before[k - 1] ELSE None
              q == IF k > 0 /\ k < Len(before) THEN before[k + 1] ELSE None
              S == [bo EXCEPT !.heapq = dequeue(heapq)[2]]
          IN  /\ bo'.heapq = IF p # None /\ q # None
                             THEN intersection(S, p, q, heapq[1].value)[1].heapq
                             ELSE S.heapq
              /\ IndexOf(after, s) = 0
              /\ \A i \in DOMAIN before : before[i] # s => IndexOf(after, before[i]) # 0]_vars

\* C28: after the handler of an INTERSECTION event of the segments a and b,
\* a and b are in the opposite in-order order, the tree has the same keys,
\* the other keys are in the same order as before, and the event's point is
\* in the output (stated for sweeps over lines none of which is vertical).
IntersectionHandling ==
    [][(PointIntersection /\ \A i \in DOMAIN lines : ~IsVertical(lines[i])) =>
          LET a == heapq[1].segments[1]
              b == heapq[1].segments[2]
              before == inorder(tree.node, tree.root_node)
              after == inorder(bo'.tree.node, bo'.tree.root_node)
          IN  /\ IndexOf(before, a) # 0 /\ IndexOf(before, b) # 0
              /\ IndexOf(after, a) # 0 /\ IndexOf(after, b) # 0
              /\ (IndexOf(before, a) < IndexOf(before, b))
                     = (IndexOf(after, b) < IndexOf(after, a))
              /\ Len(after) = Len(before)
              /\ Without(Without(after, a), b) = Without(Without(before, a), b)
              /\ heapq[1].point \in bo'.output]_vars

\* C29: between two events of a sweep, the two segments of every
\* INTERSECTION event in the queue are keys of the tree and next to each
\* other in in-order (stated for sweeps over lines none of which is vertical).
PendingAreNeighbours ==
    (pc = "sweep" /\ \A i \in DOMAIN lines : ~IsVertical(lines[i])) =>
        LET keys == inorder(tree.node, tree.root_node)
        IN  \A e \in Pending(heapq) :
                e.type = "INTERSECTION" =>
                    LET ia == IndexOf(keys, e.segments[1])
                        ib == IndexOf(keys, e.segments[2])
                    IN  /\ ia # 0
                        /\ ib # 0
                        /\ ia - ib \in {-1, 1}

\* a point of an input line as a Point
AsPoint(p) == Point(FromInt(p[1]), FromInt(p[2]))

\* the events of the queue list of the given type for segment i
EndpointEvents(heap, type_, i) ==
    {k \in DOMAIN heap : heap[k].type = type_ /\ heap[k].segments = <<i>>}

\* C30: right after BentleyOttmann is constructed from n segments the queue
\* holds 2n events: for each segment one POINT_LEFT event at its left point
\* and one POINT_RIGHT event at its right point, and no INTERSECTION event;
\* every segment has first_point.x <= second_point.x; the tree and the output
\* are empty.
SetupState ==
    (pc = "sweep" /\ processed = <<>>) =>
        /\ Len(segments) = Len(lines)
        /\ Len(heapq) = 2 * Len(lines)
        /\ \A k \in DOMAIN heapq : heapq[k].type # "INTERSECTION"
        /\ \A i \in DOMAIN lines :
               /\ Cardinality(EndpointEvents(heapq, "POINT_LEFT", i)) = 1
               /\ Cardinality(EndpointEvents(heapq, "POINT_RIGHT", i)) = 1
               /\ \A k \in EndpointEvents(heapq, "POINT_LEFT", i) :
                      heapq[k].point = AsPoint(LeftEnd(lines[i]))
               /\ \A k \in EndpointEvents(heapq, "POINT_RIGHT", i) :
                      heapq[k].point = AsPoint(RightEnd(lines[i]))
               /\ RLe(segments[i].first_point[1], segments[i].second_point[1])
               /\ {segments[i].first_point, segments[i].second_point}
                      = {AsPoint(lines[i][1]), AsPoint(lines[i][2])}
        /\ tree.root_node = None
        /\ DOMAIN tree.node = {}
        /\ output = {}

\* C30 witness: a BentleyOttmann was constructed from two lines, one of them
\* given right point first, and nothing has been dequeued yet
SetupStateWitness ==
    /\ pc = "sweep"
    /\ processed = <<>>
    /\ Len(lines) = 2
    /\ Len(heapq) = 4
    /\ X1(lines[1]) > X2(lines[1])
    /\ X1(lines[2]) < X2(lines[2])
    /\ segments[1].first_point = AsPoint(lines[1][2])

\* C31: a BentleyOttmann built from the Segment objects of a completed sweep,
\* as that sweep left them, returns the same list as the sweep on freshly
\* constructed segments did.
RunIsolation ==
    pc = "done" => run_sweep(BentleyOttmann(segments)) = result

\* C32: after calculate_value, for any sweep position, the stored value of a
\* vertical segment (equal x, different y) is a y of the segment: it lies
\* between the y of its two points.
VerticalKeyPolicy ==
    (pc = "value" /\ processed # <<>> /\ IsVertical(lines[1])) =>
        Between(FromInt(Y1(lines[1])), segments[1].value, FromInt(Y2(lines[1])))

\* the two segments of an INTERSECTION event, as a set
PairOf(e) == {e.segments[1], e.segments[2]}

\* C33: among the events processed in one sweep no two are INTERSECTION
\* events of the same two segments.
NoCrossingHandledTwice ==
    pc \in {"sweep", "done"} =>
        \A i, j \in DOMAIN processed :
            (/\ i < j
             /\ processed[i].type = "INTERSECTION"
             /\ processed[j].type = "INTERSECTION")
                => PairOf(processed[i]) # PairOf(processed[j])

\* C34: in every state of a sweep, no two INTERSECTION events in the queue
\* are events of the same two segments.
OnePendingPerPair ==
    pc = "sweep" =>
        \A e, f \in Pending(heapq) :
            (/\ e.type = "INTERSECTION"
             /\ f.type = "INTERSECTION"
             /\ e.id # f.id)
                => PairOf(e) # PairOf(f)

\* C35: when find_intersections has returned, the queue is empty and the tree
\* has no key (stated for sweeps over lines whose two points differ in x).
CleanTeardown ==
    (pc = "done" /\ \A i \in DOMAIN lines : X1(lines[i]) # X2(lines[i])) =>
        /\ heapq = <<>>
        /\ inorder(tree.node, tree.root_node) = <<>>

\* C36: after find_intersection_for_board has completed, the board's stored
\* points are the points find_intersections returns for the board's lines,
\* one row per point, the row of the k-th point named P k, and no row of an
\* earlier computation is left.
StoredPointsReplaced ==
    (pc = "board" /\ processed # <<>>
                  /\ processed[1].op = "find_intersection_for_board") =>
        LET points == find_intersections(lines)
            old == processed[1].before
        IN  /\ Len(bo.points) = Len(points)
            /\ \A k \in DOMAIN points :
                   \E r \in DOMAIN bo.points :
                       bo.points[r].point = points[k] /\ bo.points[r].name = <<"P", k>>
            /\ \A r \in DOMAIN bo.points, o \in DOMAIN old : bo.points[r].id # old[o].id

\* C36 witness: the points of a board of three lines that had a stored point
\* were computed again, and the board now has three points
StoredPointsReplacedWitness ==
    /\ pc = "board"
    /\ processed # <<>>
    /\ processed[1].op = "find_intersection_for_board"
    /\ Len(processed[1].before) = 1
    /\ Len(bo.points) = 3
    /\ Len(lines) = 3

\* C37: after any insert and remove_key calls on a tree, its nodes attribute
\* is the number of keys in the tree.
NodeCounter ==
    pc = "tree" => tree.nodes = Len(inorder(tree.node, tree.root_node))

====
